---- MODULE Spec2Model ----
(***************************************************************************)
(* Monitor Collector API (src/main.py): a FastAPI service over two         *)
(* PostgreSQL tables.  Agents post CPU/RAM samples (collect) and poll a    *)
(* start/stop command (get_command); an administrator sets the command     *)
(* (set_command); a dashboard reads recent samples (metrics).              *)
(*                                                                         *)
(* Time is an integer: seconds after 2024-01-01T00:00:00; the server comes *)
(* up at second 1.  The response to the last completed request is kept in  *)
(* the variable response.                                                  *)
(***************************************************************************)
EXTENDS Integers, Sequences, FiniteSets, TLC

VARIABLES
    metricas,         \* table metricas: the rows in insertion order
    metricas_id_seq,  \* the sequence behind metricas.id (SERIAL): last value handed out
    comandos,         \* table comandos: the set of committed rows
    txns,             \* the set_command requests in flight, one slot per worker
    clock,            \* the server's current time
    response          \* the last completed request and its HTTP response

vars == <<metricas, metricas_id_seq, comandos, txns, clock, response>>

----------------------------------------------------------------------------
(* Bounds of the model *)

MaxClock == 2
MaxSamples == 3
NumWriters == 2

----------------------------------------------------------------------------
(* Configuration and request inputs *)

API_KEY == "minha-chave-teste"

\* Optional[str]: None, or the one-element sequence holding the string.
None == <<>>
Some(s) == <<s>>

Clients == {"pc-1", "pc-2"}

\* Authorization headers: absent, empty, a key one character short, the key.
Authorizations ==
    {None, Some(""), Some("Bearer minha-chave-test"), Some("Bearer minha-chave-teste")}

CommandInputs == {"start", "stop", "restart"}

\* Payload.timestamp: one string that is no ISO-8601 date and two that are.
TimestampInputs ==
    {"not-a-date", "2024-01-01T00:00:02", "2024-01-01T00:00:03"}

CpuInputs == {10}
RamInputs == {20}

DefaultLimit == 500
LimitInputs == {-1, 0, 1, 2, DefaultLimit}

Workers == 1..NumWriters

----------------------------------------------------------------------------
(* Helpers *)

Min(a, b) == IF a <= b THEN a ELSE b

Reverse(s) == [i \in 1..Len(s) |-> s[Len(s) + 1 - i]]

\* Python's `k in s` on strings.
Contains(s, k) ==
    \E i \in 1..(Len(s) - Len(k) + 1) : SubSeq(s, i, i + Len(k) - 1) = k

\* datetime.fromisoformat: the parsed time, or a failure (ValueError).
fromisoformat(s) ==
    CASE s = "2024-01-01T00:00:02" -> [ok |-> TRUE, value |-> 2]
      [] s = "2024-01-01T00:00:03" -> [ok |-> TRUE, value |-> 3]
      [] OTHER -> [ok |-> FALSE, value |-> 0]

\* The response to a request: the handler and client it answers, the HTTP
\* status and the JSON body.
Respond(op, client_id, status, body) ==
    [op |-> op, client_id |-> client_id, status |-> status, body |-> body]

\* What the framework answers when a handler raises something other than
\* HTTPException.
InternalServerError == [detail |-> "Internal Server Error"]

IdleTxn ==
    [pc |-> "idle", client_id |-> "", command |-> "", updated_at |-> 0]

----------------------------------------------------------------------------
(* init_db / startup: both tables exist and are empty *)

Init ==
    /\ metricas = <<>>
    /\ metricas_id_seq = 0
    /\ comandos = {}
    /\ txns = [w \in Workers |-> IdleTxn]
    /\ clock = 1
    /\ response = Respond("none", "", 0, <<>>)

\* Time passes.
Tick ==
    /\ clock < MaxClock
    /\ clock' = clock + 1
    /\ UNCHANGED <<metricas, metricas_id_seq, comandos, txns, response>>

----------------------------------------------------------------------------
(* POST /api/collect *)

\* A variant that stores the epoch when parsing fails.
collect_ts_epoch(timestamp, now) ==
    IF fromisoformat(timestamp).ok THEN fromisoformat(timestamp).value ELSE 0

\* The timestamp stored: the parsed one, or the current time when parsing fails.
collect_ts(timestamp, now) ==
    IF fromisoformat(timestamp).ok THEN fromisoformat(timestamp).value ELSE now

\* A variant that skips a sample equal to a stored one.
InsertMetricaDedup(table, seq, client_id, ts, cpu, ram) ==
    IF \E i \in 1..Len(table) :
          /\ table[i].client_id = client_id /\ table[i].ts = ts
          /\ table[i].cpu = cpu /\ table[i].ram = ram
    THEN table
    ELSE Append(table, [id |-> seq + 1, client_id |-> client_id, ts |-> ts,
                        cpu |-> cpu, ram |-> ram])

\* A variant that keeps one sample per client and timestamp, replacing the
\* stored one.
InsertMetricaOverwrite(table, seq, client_id, ts, cpu, ram) ==
    LET new == [id |-> seq + 1, client_id |-> client_id, ts |-> ts,
                cpu |-> cpu, ram |-> ram]
    IN  IF \E i \in 1..Len(table) : table[i].client_id = client_id /\ table[i].ts = ts
        THEN [i \in 1..Len(table) |->
                 IF table[i].client_id = client_id /\ table[i].ts = ts
                 THEN new ELSE table[i]]
        ELSE Append(table, new)

\* INSERT INTO metricas (client_id, ts, cpu, ram): id comes from the sequence.
InsertMetrica(table, seq, client_id, ts, cpu, ram) ==
    Append(table, [id |-> seq + 1, client_id |-> client_id, ts |-> ts,
                   cpu |-> cpu, ram |-> ram])

collect(client_id, timestamp, cpu, ram) ==
    /\ Len(metricas) < MaxSamples
    /\ metricas' = InsertMetrica(metricas, metricas_id_seq, client_id,
                                 collect_ts(timestamp, clock), cpu, ram)
    /\ metricas_id_seq' = metricas_id_seq + 1
    /\ response' = Respond("collect", client_id, 200, [status |-> "ok"])
    /\ UNCHANGED <<comandos, txns, clock>>

----------------------------------------------------------------------------
(* GET /api/metrics/{client_id} *)

\* SELECT ... FROM metricas WHERE client_id = %s ORDER BY ts DESC LIMIT %s:
\* every result the engine may return (rows of equal ts come in any order).
SelectMetricas(table, client_id, limit) ==
    LET S == {i \in 1..Len(table) : table[i].client_id = client_id}
        n == Cardinality(S)
        Orders == {f \in [1..n -> S] :
                     /\ \A i, j \in 1..n : i # j => f[i] # f[j]
                     /\ \A i, j \in 1..n : i < j => table[f[i]].ts >= table[f[j]].ts}
    IN  {[i \in 1..Min(limit, n) |-> table[f[i]]] : f \in Orders}

\* Columns psycopg2 returns as datetime objects.
DatetimeColumns == {"ts", "updated_at"}

\* json.dumps without a default encoder: a datetime value raises TypeError.
JsonSerializable(content) ==
    \A i \in 1..Len(content) : DOMAIN content[i] \cap DatetimeColumns = {}

\* starlette's JSONResponse(content=rows): [status, body].
JSONResponse(content) ==
    IF JsonSerializable(content)
    THEN [status |-> 200, body |-> content]
    ELSE [status |-> 500, body |-> InternalServerError]

\* The outcomes of the handler: LIMIT rejects a negative count (the query
\* raises), otherwise the selected rows reversed and rendered.
metrics_outcomes(table, client_id, limit) ==
    IF limit < 0
    THEN {[status |-> 500, body |-> InternalServerError]}
    ELSE {JSONResponse(Reverse(rows)) : rows \in SelectMetricas(table, client_id, limit)}

metrics(client_id, limit) ==
    /\ \E out \in metrics_outcomes(metricas, client_id, limit) :
          response' = Respond("metrics", client_id, out.status, out.body)
    /\ UNCHANGED <<metricas, metricas_id_seq, comandos, txns, clock>>

----------------------------------------------------------------------------
(* GET /api/command/{client_id} *)

\* A variant that stores the default command for a client it does not know.
get_command_or_create(table, client_id) ==
    LET rows == {r \in table : r.client_id = client_id}
    IN  IF rows = {}
        THEN {[body |-> [command |-> "stop"],
               comandos |-> table \cup {[client_id |-> client_id, command |-> "stop",
                                         updated_at |-> 0]}]}
        ELSE {[body |-> [command |-> r.command, updated_at |-> r.updated_at],
               comandos |-> table] : r \in rows}

\* SELECT command, updated_at FROM comandos WHERE client_id = %s; fetchone().
\* Each outcome: the body returned and the table afterwards.
get_command_outcomes(table, client_id) ==
    LET rows == {r \in table : r.client_id = client_id}
    IN  IF rows = {}
        THEN {[body |-> [command |-> "stop"], comandos |-> table]}
        ELSE {[body |-> [command |-> r.command, updated_at |-> r.updated_at],
               comandos |-> table] : r \in rows}

get_command(client_id) ==
    /\ \E out \in get_command_outcomes(comandos, client_id) :
          /\ comandos' = out.comandos
          /\ response' = Respond("get_command", client_id, 200, out.body)
    /\ UNCHANGED <<metricas, metricas_id_seq, txns, clock>>

----------------------------------------------------------------------------
(* POST /api/command/{client_id} *)

\* A variant that only asks for the header to be present.
AuthorizedIfPresent(authorization) == authorization # None

\* not (not authorization or API_KEY not in authorization)
Authorized(authorization) ==
    /\ authorization # None
    /\ authorization[1] # ""
    /\ Contains(authorization[1], API_KEY)

\* A variant that accepts any non-empty command.
ValidCommandLax(command) == command # ""

\* command in ("start", "stop")
ValidCommand(command) == command \in {"start", "stop"}

\* A variant on a table without the primary key: a plain insert.
UpsertNoKey(table, row) == [ok |-> TRUE, table |-> table \cup {row}]

\* A variant with ON CONFLICT (client_id) DO NOTHING.
UpsertDoNothing(table, row) ==
    [ok |-> TRUE,
     table |-> IF \E r \in table : r.client_id = row.client_id
               THEN table ELSE table \cup {row}]

\* A variant without the ON CONFLICT clause: a second insert for a client
\* raises UniqueViolation.
InsertOnly(table, row) ==
    IF \E r \in table : r.client_id = row.client_id
    THEN [ok |-> FALSE, table |-> table]
    ELSE [ok |-> TRUE, table |-> table \cup {row}]

\* INSERT INTO comandos ... ON CONFLICT (client_id) DO UPDATE SET command,
\* updated_at: client_id is the primary key.  ok is FALSE when the statement
\* raises.
Upsert(table, row) ==
    [ok |-> TRUE,
     table |-> {r \in table : r.client_id # row.client_id} \cup {row}]

\* The whole handler, run without another writer in flight: [status, body,
\* comandos].
set_command_outcome(table, client_id, command, authorization, now) ==
    IF ~Authorized(authorization)
    THEN [status |-> 401, body |-> [detail |-> "Unauthorized"], comandos |-> table]
    ELSE IF ~ValidCommand(command)
    THEN [status |-> 400, body |-> [detail |-> "Invalid command"], comandos |-> table]
    ELSE LET up == Upsert(table, [client_id |-> client_id, command |-> command,
                                  updated_at |-> now])
         IN  IF up.ok
             THEN [status |-> 200,
                   body |-> [status |-> "ok", client_id |-> client_id,
                             command |-> command],
                   comandos |-> up.table]
             ELSE [status |-> 500, body |-> InternalServerError, comandos |-> table]

set_command(client_id, command, authorization) ==
    /\ \A w \in Workers : txns[w].pc = "idle"
    /\ LET out == set_command_outcome(comandos, client_id, command, authorization, clock)
       IN  /\ comandos' = out.comandos
           /\ response' = Respond("set_command", client_id, out.status, out.body)
    /\ UNCHANGED <<metricas, metricas_id_seq, txns, clock>>

----------------------------------------------------------------------------
(* set_command with several requests in flight.  The handler is cut where *)
(* it meets the database: the checks, cur.execute and conn.commit.  A     *)
(* request that fails the checks runs no statement and is not part of the *)
(* interleaving.                                                          *)

\* The row lock of the upsert: cur.execute waits while another transaction
\* that wrote the row of this client_id has not committed.
RowLocked(inflight, client_id) ==
    \E w \in Workers :
       inflight[w].pc = "executed" /\ inflight[w].client_id = client_id

\* The request passes its checks and takes a connection; the first free
\* worker serves it.
set_command_begin(w, client_id, command, authorization) ==
    /\ Authorized(authorization) /\ ValidCommand(command)
    /\ txns[w].pc = "idle"
    /\ \A v \in Workers : v < w => txns[v].pc # "idle"
    /\ txns' = [txns EXCEPT ![w] = [pc |-> "started", client_id |-> client_id,
                                    command |-> command, updated_at |-> 0]]
    /\ UNCHANGED <<metricas, metricas_id_seq, comandos, clock, response>>

\* cur.execute: the transaction starts, NOW() is its start time, and the row
\* is written under the row lock.
set_command_execute(w) ==
    /\ txns[w].pc = "started"
    /\ ~RowLocked(txns, txns[w].client_id)
    /\ txns' = [txns EXCEPT ![w].pc = "executed", ![w].updated_at = clock]
    /\ UNCHANGED <<metricas, metricas_id_seq, comandos, clock, response>>

\* conn.commit and the return: the write becomes visible.
set_command_commit(w) ==
    /\ txns[w].pc = "executed"
    /\ LET up == Upsert(comandos, [client_id |-> txns[w].client_id,
                                   command |-> txns[w].command,
                                   updated_at |-> txns[w].updated_at])
       IN  IF up.ok
           THEN /\ comandos' = up.table
                /\ response' = Respond("set_command", txns[w].client_id, 200,
                                       [status |-> "ok",
                                        client_id |-> txns[w].client_id,
                                        command |-> txns[w].command])
           ELSE /\ comandos' = comandos
                /\ response' = Respond("set_command", txns[w].client_id, 500,
                                       InternalServerError)
    /\ txns' = [txns EXCEPT ![w] = IdleTxn]
    /\ UNCHANGED <<metricas, metricas_id_seq, clock>>

----------------------------------------------------------------------------
(* The service handling one request at a time *)

Next ==
    \/ Tick
    \/ \E c \in Clients, t \in TimestampInputs, cpu \in CpuInputs, ram \in RamInputs :
          collect(c, t, cpu, ram)
    \/ \E c \in Clients, l \in LimitInputs : metrics(c, l)
    \/ \E c \in Clients : get_command(c)
    \/ \E c \in Clients, cmd \in CommandInputs, a \in Authorizations :
          set_command(c, cmd, a)

Spec == Init /\ [][Next]_vars

(* The metric store alone: ingestion and the dashboard query *)

NextMetrics ==
    \/ Tick
    \/ \E c \in Clients, t \in TimestampInputs, cpu \in CpuInputs, ram \in RamInputs :
          collect(c, t, cpu, ram)
    \/ \E c \in Clients, l \in LimitInputs : metrics(c, l)

SpecMetrics == Init /\ [][NextMetrics]_vars

(* The command store alone: the polling agent and the administrator *)

NextCommands ==
    \/ Tick
    \/ \E c \in Clients : get_command(c)
    \/ \E c \in Clients, cmd \in CommandInputs, a \in Authorizations :
          set_command(c, cmd, a)

SpecCommands == Init /\ [][NextCommands]_vars

(* The command store under concurrent writers: requests that pass the *)
(* checks of set_command, interleaved at their database calls          *)

NextConcurrent ==
    \/ Tick
    \/ \E w \in Workers, c \in Clients, cmd \in CommandInputs, a \in Authorizations :
          set_command_begin(w, c, cmd, a)
    \/ \E w \in Workers : set_command_execute(w)
    \/ \E w \in Workers : set_command_commit(w)

SpecConcurrent == Init /\ [][NextConcurrent]_vars

----------------------------------------------------------------------------
(* Properties *)

\* The headers of Authorizations that are absent or do not contain API_KEY,
\* and those that contain it.
UnauthorizedHeaders == {None, Some(""), Some("Bearer minha-chave-test")}
AuthorizedHeaders == {Some("Bearer minha-chave-teste")}

InvalidCommands == {"restart"}
UnparseableTimestamps == {"not-a-date"}

CommandRows(table, client_id) == {r \in table : r.client_id = client_id}

SamplesOf(table, client_id) ==
    Cardinality({i \in 1..Len(table) : table[i].client_id = client_id})

\* C1: a set_command call whose Authorization header is absent or does not
\* contain the key answers 401 Unauthorized and leaves table comandos as it
\* was, whatever the client and the command.
UnauthorizedWriteChangesNothing ==
    [][\A c \in Clients, cmd \in CommandInputs, a \in UnauthorizedHeaders :
          set_command(c, cmd, a) =>
             /\ response'.status = 401
             /\ response'.body = [detail |-> "Unauthorized"]
             /\ comandos' = comandos]_vars

\* C1 witness: the last request was a set_command answered 401 for a client
\* that has a stored command.
UnauthorizedWriteSeen ==
    /\ response.op = "set_command"
    /\ response.status = 401
    /\ CommandRows(comandos, response.client_id) # {}

\* C2: a set_command call with a command outside {start, stop} is rejected
\* (400 when the header is authorized, 401 otherwise) and leaves the Command
\* row of every client as it was.
InvalidCommandChangesNothing ==
    [][\A c \in Clients, cmd \in InvalidCommands, a \in Authorizations :
          set_command(c, cmd, a) =>
             /\ response'.status = IF a \in AuthorizedHeaders THEN 400 ELSE 401
             /\ \A d \in Clients : CommandRows(comandos', d) = CommandRows(comandos, d)
             /\ comandos' = comandos]_vars

\* C2 witness: the last request was a set_command answered 400 for a client
\* that has a stored command.
InvalidCommandSeen ==
    /\ response.op = "set_command"
    /\ response.status = 400
    /\ response.body = [detail |-> "Invalid command"]
    /\ CommandRows(comandos, response.client_id) # {}

\* C3: after every step of any sequence of collect, metrics, get_command and
\* set_command calls there is at most one Command row per client; and an
\* authorized write of "stop" right after a successful write of "start" for
\* the same client leaves exactly one row for it, with command "stop".
OneCommandRowPerClient ==
    [][/\ \A c \in Clients : Cardinality(CommandRows(comandos', c)) <= 1
       /\ \A c \in Clients, a \in AuthorizedHeaders :
             (/\ response.op = "set_command" /\ response.status = 200
              /\ response.client_id = c /\ response.body.command = "start"
              /\ set_command(c, "stop", a))
             => /\ Cardinality(CommandRows(comandos', c)) = 1
                /\ \A r \in CommandRows(comandos', c) : r.command = "stop"]_vars

\* C3 witness: both clients have a stored command, samples are stored too,
\* and the last request was a successful write of "stop".
StopWrittenSeen ==
    /\ response.op = "set_command" /\ response.status = 200
    /\ response.body.command = "stop"
    /\ \A c \in Clients : CommandRows(comandos, c) # {}
    /\ \E r \in comandos : r.command = "start"
    /\ Len(metricas) > 0

\* C4: a get_command for a client right after a successful set_command of
\* value v for that client returns command v.
ReadAfterWrite ==
    [][\A c \in Clients :
          (/\ response.op = "set_command" /\ response.status = 200
           /\ response.client_id = c
           /\ get_command(c))
          => /\ response'.status = 200
             /\ response'.body.command = response.body.command]_vars

\* C4 witness: a read returned a stored "start".
ReadOfStartSeen ==
    /\ response.op = "get_command"
    /\ response.status = 200
    /\ DOMAIN response.body = {"command", "updated_at"}
    /\ response.body.command = "start"

\* C5: a get_command for a client without a Command row returns exactly
\* {command: "stop"}, with no updated_at, and no get_command changes table
\* comandos.
ReadIsPureAndDefaultsToStop ==
    [][\A c \in Clients :
          get_command(c) =>
             /\ comandos' = comandos
             /\ CommandRows(comandos, c) = {} =>
                   /\ response'.status = 200
                   /\ response'.body = [command |-> "stop"]
                   /\ CommandRows(comandos', c) = {}]_vars

\* C5 witness: a read returned the default for a client without a row while
\* the other client has one.
DefaultReadSeen ==
    /\ response.op = "get_command"
    /\ DOMAIN response.body = {"command"}
    /\ CommandRows(comandos, response.client_id) = {}
    /\ comandos # {}

\* C6: every collect call adds exactly one row for its client and none for
\* any other, whether or not an equal sample is already stored.
CollectAddsOneRow ==
    [][\A c \in Clients, t \in TimestampInputs, cpu \in CpuInputs, ram \in RamInputs :
          collect(c, t, cpu, ram) =>
             /\ SamplesOf(metricas', c) = SamplesOf(metricas, c) + 1
             /\ \A d \in Clients \ {c} : SamplesOf(metricas', d) = SamplesOf(metricas, d)]_vars

\* C6 witness: two stored rows differ in nothing but their id.
DuplicateSamplesSeen ==
    \E i, j \in 1..Len(metricas) :
       /\ i # j
       /\ metricas[i].client_id = metricas[j].client_id
       /\ metricas[i].ts = metricas[j].ts
       /\ metricas[i].cpu = metricas[j].cpu
       /\ metricas[i].ram = metricas[j].ram

\* body is what the query for client_id with limit must return over table:
\* Min(limit, samples of the client) rows of the client, each a stored row
\* and none twice, in ascending order of ts, and no row left out is newer
\* than a row returned.
IsNewestAscending(body, table, client_id, limit) ==
    /\ Len(body) = Min(limit, SamplesOf(table, client_id))
    /\ \A i \in 1..Len(body) :
          /\ body[i].client_id = client_id
          /\ \E k \in 1..Len(table) : table[k] = body[i]
    /\ \A i, j \in 1..Len(body) : i < j => body[i].id # body[j].id
    /\ \A i, j \in 1..Len(body) : i < j => body[i].ts <= body[j].ts
    /\ \A k \in 1..Len(table) :
          (table[k].client_id = client_id
             /\ \A i \in 1..Len(body) : body[i].id # table[k].id)
          => \A i \in 1..Len(body) : table[k].ts <= body[i].ts

\* C7: the metrics query for a client with limit N >= 0 answers with the
\* Min(N, samples) newest samples of that client in ascending order of
\* timestamp.
MetricsReturnsNewestAscending ==
    [][\A c \in Clients, l \in LimitInputs :
          (l >= 0 /\ metrics(c, l)) =>
             /\ response'.status = 200
             /\ IsNewestAscending(response'.body, metricas, c, l)]_vars

\* C8: a collect call with an unparseable timestamp gets the acknowledgment
\* of any other collect call and appends exactly one row, whose ts is the
\* server's current time.
BadTimestampFallsBackToNow ==
    [][\A c \in Clients, t \in UnparseableTimestamps, cpu \in CpuInputs, ram \in RamInputs :
          collect(c, t, cpu, ram) =>
             /\ response'.status = 200
             /\ response'.body = [status |-> "ok"]
             /\ Len(metricas') = Len(metricas) + 1
             /\ SubSeq(metricas', 1, Len(metricas)) = metricas
             /\ metricas'[Len(metricas')].client_id = c
             /\ metricas'[Len(metricas')].ts = clock]_vars

\* C8 witness: a row carries the time 1, which no timestamp of
\* TimestampInputs parses to: it was stored by the fallback.
FallbackRowSeen ==
    /\ response.op = "collect" /\ response.status = 200
    /\ \E i \in 1..Len(metricas) : metricas[i].ts = 1
    /\ \A t \in TimestampInputs : fromisoformat(t).ok => fromisoformat(t).value # 1

\* C9: with writers interleaved, every commit of a set_command succeeds and
\* leaves exactly one row for its client, holding the command of that commit;
\* the rows of the other clients stay as they were; and table comandos changes
\* at commits only.  So the stored command is that of the last commit.
LastCommitWins ==
    [][/\ \A w \in Workers :
             set_command_commit(w) =>
                /\ response'.status = 200
                /\ response'.body.command = txns[w].command
                /\ Cardinality(CommandRows(comandos', txns[w].client_id)) = 1
                /\ \A r \in CommandRows(comandos', txns[w].client_id) :
                      r.command = txns[w].command
                /\ \A d \in Clients \ {txns[w].client_id} :
                      CommandRows(comandos', d) = CommandRows(comandos, d)
       /\ comandos' # comandos => \E w \in Workers : set_command_commit(w)]_vars

\* C9 witness: a write for a client has committed and is the stored command,
\* and a second writer for the same client, with the other command, has
\* written the row and not yet committed.
InterleavedWritersSeen ==
    /\ response.op = "set_command" /\ response.status = 200
    /\ \E r \in comandos :
          r.client_id = response.client_id /\ r.command = response.body.command
    /\ \E w \in Workers :
          /\ txns[w].pc = "executed"
          /\ txns[w].client_id = response.client_id
          /\ txns[w].command # response.body.command
          /\ txns[w].updated_at = clock

\* C10: no step removes or changes a stored sample: the rows stored before
\* the step are the first rows after it; and the ids of the stored rows are
\* distinct and grow with the order of insertion.
SamplesAppendOnly ==
    [][/\ Len(metricas') >= Len(metricas)
       /\ SubSeq(metricas', 1, Len(metricas)) = metricas
       /\ \A i, j \in 1..Len(metricas') : i < j => metricas'[i].id < metricas'[j].id]_vars

\* C10 witness: samples of both clients are stored and the last request was a
\* successful set_command.
SamplesKeptSeen ==
    /\ Len(metricas) >= 2
    /\ \A c \in Clients : SamplesOf(metricas, c) > 0
    /\ response.op = "set_command" /\ response.status = 200

====
